---------------------------- MODULE Spec2Model ----------------------------
(***************************************************************************)
(* A model of the CHIP-8 interpreter of src/src/chip8.rs (struct Chip8).   *)
(*                                                                         *)
(* The variables are the fields of struct Chip8, under their own names.    *)
(* Every public method of Chip8 is one action; the private handlers are    *)
(* operators from a machine record to a machine record, composed in the    *)
(* order in which the code runs its statements.                            *)
(*                                                                         *)
(* A Rust panic (an index out of bounds, an arithmetic overflow in a build *)
(* with overflow checks) is modelled by the flag panicked: the fields keep *)
(* the values they had when the panic was raised and no further call is    *)
(* made on the machine.                                                    *)
(*                                                                         *)
(* The f32 timers are modelled in half units (an integer t stands for the  *)
(* value t/2), which f32 represents exactly in the range used.             *)
(*                                                                         *)
(* The two large arrays are held by their non-default entries: memory is   *)
(* the function from the addresses of 0..4095 that hold a non-zero byte to *)
(* that byte, screen is the set of the indices of 0..2047 whose pixel is   *)
(* Lit.  Byte, Store, Pixel and Paint read and write them as the arrays.   *)
(***************************************************************************)
EXTENDS Integers, Sequences, FiniteSets, TLC

VARIABLES
    device_state,       \* CpuState: "Ready" | "WaitingForKeypress"
    tick_delay,         \* u16
    opcode,             \* u8
    index,              \* u16
    program_counter,    \* u16
    timer_delay,        \* f32, in half units
    buzzer_delay,       \* f32, in half units
    stack_pointer,      \* u8
    temp_vx,            \* u8
    stack,              \* [u16; 16]
    general_registers,  \* [u8; 16]
    memory,             \* [u8; 4096]: the non-zero bytes
    keypad,             \* [KeyState; 16]
    temp_keypad,        \* [KeyState; 16]
    screen,             \* [PixelState; 64 * 32]: the Lit pixels
    panicked,           \* TRUE once a call has panicked
    last,               \* history: the last call made on the machine
    key_phase,          \* history: per key, its presses since the wait began
    calls,              \* history: addresses of the CALLs not yet returned
    odd_target          \* history: the counter was sent to an odd address

fields == <<device_state, tick_delay, opcode, index, program_counter,
            timer_delay, buzzer_delay, stack_pointer, temp_vx, stack,
            general_registers, memory, keypad, temp_keypad, screen>>

vars == <<device_state, tick_delay, opcode, index, program_counter,
          timer_delay, buzzer_delay, stack_pointer, temp_vx, stack,
          general_registers, memory, keypad, temp_keypad, screen,
          panicked, last, key_phase, calls, odd_target>>

-----------------------------------------------------------------------------
(* Sizes fixed by the struct.                                              *)

\* memory: [u8; 4096]
MemSize == 4096
\* screen: [PixelState; 64 * 32]
ScreenCols == 64
ScreenRows == 32
\* keypad: [KeyState; 16], stack: [u16; 16], general_registers: [u8; 16]
NumKeys == 16
StackSize == 16
NumRegs == 16
\* soft_reset: program_counter = 0x200
ProgramStart == 512

(* Bounds of the model.                                                    *)

\* Execute is taken while tick_delay is below this many counted instructions.
MaxTicks == 3
\* The same, for the specification of the call stack.
MaxCallTicks == 34
\* The number of nested CALLs of the program of the call stack.
CallChainLength == 17
\* ... of the specification of the instruction words.
MaxWordTicks == 2
\* ... of the specification of the key wait.
MaxKeyTicks == 4
\* ... of the specification of the display.
MaxDrawTicks == 8
\* ... of the specification of the timers.
MaxTimerTicks == 4
\* ... of the specification of the jumps.
MaxJumpTicks == 6
\* ... of the specification of the index instructions.
MaxIndexTicks == 6
\* ... of the specification of the key skips.
MaxSkipTicks == 3
\* ... of the specification of the arithmetic.
MaxAluTicks == 4
\* ... of the specification of the resets.
MaxResetTicks == 10

-----------------------------------------------------------------------------
(* Integer helpers.                                                        *)

\* Rust's half-open range lo..hi
Range(lo, hi) == lo .. (hi - 1)

U8 == 256
U16 == 65536

RECURSIVE AndBits(_, _, _)
AndBits(a, b, n) ==
    IF n = 0 THEN 0
    ELSE ((a % 2) * (b % 2)) + 2 * AndBits(a \div 2, b \div 2, n - 1)

RECURSIVE OrBits(_, _, _)
OrBits(a, b, n) ==
    IF n = 0 THEN 0
    ELSE (IF (a % 2) + (b % 2) > 0 THEN 1 ELSE 0)
         + 2 * OrBits(a \div 2, b \div 2, n - 1)

RECURSIVE XorBits(_, _, _)
XorBits(a, b, n) ==
    IF n = 0 THEN 0
    ELSE (((a % 2) + (b % 2)) % 2) + 2 * XorBits(a \div 2, b \div 2, n - 1)

\* a & b, a | b, a ^ b on u8
BitAnd(a, b) == AndBits(a, b, 8)
BitOr(a, b)  == OrBits(a, b, 8)
BitXor(a, b) == XorBits(a, b, 8)

\* u8::wrapping_add, u8::wrapping_sub
WrappingAdd8(a, b) == (a + b) % U8
WrappingSub8(a, b) == (a - b + U8) % U8

-----------------------------------------------------------------------------
(* The arrays memory and screen.                                           *)

\* [0; 4096]
NoBytes == [a \in {} |-> 0]

\* mem[a], for a in 0..4095
Byte(mem, a) == IF a \in DOMAIN mem THEN mem[a] ELSE 0

\* mem with mem[a] = new[a] for every a in DOMAIN new
StoreAll(mem, new) ==
    LET at(a) == IF a \in DOMAIN new THEN new[a] ELSE mem[a]
    IN  [a \in {x \in DOMAIN mem \cup DOMAIN new : at(x) # 0} |-> at(a)]

\* mem with mem[a] = byte
Store(mem, a, byte) == StoreAll(mem, [x \in {a} |-> byte])

\* mem with mem[a] = 0 for every a in the set addresses
Clear(mem, addresses) == [a \in DOMAIN mem \ addresses |-> mem[a]]

\* scr[i], for i in 0..2047
Pixel(scr, i) == IF i \in scr THEN "Lit" ELSE "Unlit"

\* scr with scr[i] = state
Paint(scr, i, state) == IF state = "Lit" THEN scr \cup {i} ELSE scr \ {i}

-----------------------------------------------------------------------------
(* The machine as a record, and the state after construction.              *)

Cur ==
    [device_state      |-> device_state,
     tick_delay        |-> tick_delay,
     opcode            |-> opcode,
     index             |-> index,
     program_counter   |-> program_counter,
     timer_delay       |-> timer_delay,
     buzzer_delay      |-> buzzer_delay,
     stack_pointer     |-> stack_pointer,
     temp_vx           |-> temp_vx,
     stack             |-> stack,
     general_registers |-> general_registers,
     memory            |-> memory,
     keypad            |-> keypad,
     temp_keypad       |-> temp_keypad,
     screen            |-> screen,
     panicked          |-> panicked]

\* The primed fields are those of the record c.
Becomes(c) ==
    /\ device_state'      = c.device_state
    /\ tick_delay'        = c.tick_delay
    /\ opcode'            = c.opcode
    /\ index'             = c.index
    /\ program_counter'   = c.program_counter
    /\ timer_delay'       = c.timer_delay
    /\ buzzer_delay'      = c.buzzer_delay
    /\ stack_pointer'     = c.stack_pointer
    /\ temp_vx'           = c.temp_vx
    /\ stack'             = c.stack
    /\ general_registers' = c.general_registers
    /\ memory'            = c.memory
    /\ keypad'            = c.keypad
    /\ temp_keypad'       = c.temp_keypad
    /\ screen'            = c.screen
    /\ panicked'          = c.panicked

\* impl Default for Chip8
Default ==
    [device_state      |-> "Ready",
     tick_delay        |-> 0,
     opcode            |-> 0,
     index             |-> 0,
     program_counter   |-> 0,
     timer_delay       |-> 0,
     buzzer_delay      |-> 0,
     stack_pointer     |-> 0,
     temp_vx           |-> 0,
     stack             |-> [i \in Range(0, StackSize) |-> 0],
     general_registers |-> [i \in Range(0, NumRegs) |-> 0],
     memory            |-> NoBytes,
     keypad            |-> [i \in Range(0, NumKeys) |-> "Unpressed"],
     temp_keypad       |-> [i \in Range(0, NumKeys) |-> "Unpressed"],
     screen            |-> {},
     panicked          |-> FALSE]

\* A panic: the fields stay as they are at the panicking statement.
Panic(c) == [c EXCEPT !.panicked = TRUE]


-----------------------------------------------------------------------------
(* The host interface: resets, memory, keypad, screen, counter, timers.    *)

\* pub fn soft_reset
\* soft_reset without the assignment of device_state.
soft_reset_StateKept(c) ==
    [c EXCEPT !.opcode          = 0,
              !.index           = 0,
              !.program_counter = ProgramStart,
              !.timer_delay     = 0,
              !.buzzer_delay    = 0,
              !.stack_pointer   = 0]

soft_reset(c) ==
    [c EXCEPT !.opcode          = 0,
              !.index           = 0,
              !.program_counter = ProgramStart,
              !.timer_delay     = 0,
              !.buzzer_delay    = 0,
              !.stack_pointer   = 0,
              !.device_state    = "Ready"]

\* pub fn set_memory_byte; the result is <<machine, returned bool>>
\* set_memory_byte with the test address <= 4096.
set_memory_byte_Inclusive(c, address, byte) ==
    IF address <= MemSize
    THEN <<[c EXCEPT !.memory = Store(@, address, byte)], TRUE>>
    ELSE <<c, FALSE>>

set_memory_byte(c, address, byte) ==
    IF address < MemSize
    THEN <<[c EXCEPT !.memory = Store(@, address, byte)], TRUE>>
    ELSE <<c, FALSE>>

\* pub fn set_memory_word: the high byte is stored before the low byte's
\* index is evaluated, so at address 4095 the second store panics.
set_memory_word(c, address, word) ==
    IF address < MemSize
    THEN LET c1 == [c EXCEPT !.memory = Store(@, address, word \div U8)]
         IN  IF address + 1 < MemSize
             THEN <<[c1 EXCEPT !.memory = Store(@, address + 1, word % U8)], TRUE>>
             ELSE <<Panic(c1), FALSE>>
    ELSE <<c, FALSE>>

\* let font_set: [u8; 80]
font_set ==
    << 240, 144, 144, 144, 240,     \* 0
        32,  96,  32,  32, 112,     \* 1
       240,  16, 240, 128, 240,     \* 2
       240,  16, 240,  16, 240,     \* 3
       144, 144, 240,  16,  16,     \* 4
       240, 128, 240,  16, 240,     \* 5
       240, 128, 240, 144, 240,     \* 6
       240,  16,  32,  64,  64,     \* 7
       240, 144, 240, 144, 240,     \* 8
       240, 144, 240,  16, 240,     \* 9
       240, 144, 240, 144, 144,     \* A
       224, 144, 224, 144, 224,     \* B
       240, 128, 128, 128, 240,     \* C
       224, 144, 144, 144, 224,     \* D
       240, 128, 240, 128, 240,     \* E
       240, 128, 240, 128, 128 >>   \* F

\* fn load_default_font: for i in 0..80 { set_memory_byte(i, font_set[i]) },
\* each store guarded by set_memory_byte's address < 4096
load_default_font(c) ==
    [c EXCEPT !.memory =
        StoreAll(@, [a \in {i \in Range(0, 80) : i < MemSize} |-> font_set[a + 1]])]

\* The index ranges of the clearing loops of hard_reset.
HardResetStackRange == Range(0, 15)
HardResetRegisterRange == Range(0, 15)

\* pub fn hard_reset
hard_reset(c) ==
    LET c1 == soft_reset(c)
        c2 == [c1 EXCEPT
                 !.stack = [i \in DOMAIN @ |->
                              IF i \in HardResetStackRange THEN 0 ELSE @[i]],
                 !.general_registers = [i \in DOMAIN @ |->
                              IF i \in HardResetRegisterRange THEN 0 ELSE @[i]],
                 !.memory = Clear(@, Range(0, 4096)),
                 !.keypad = [i \in DOMAIN @ |->
                              IF i \in Range(0, 16) THEN "Unpressed" ELSE @[i]],
                 !.temp_keypad = [i \in DOMAIN @ |->
                              IF i \in Range(0, 16) THEN "Unpressed" ELSE @[i]],
                 !.screen = @ \ Range(0, 64 * 32)]
    IN  load_default_font(c2)

\* fn save_keypad
save_keypad(c) ==
    [c EXCEPT !.temp_keypad = [i \in DOMAIN @ |->
                                 IF i \in Range(0, 16) THEN c.keypad[i] ELSE @[i]]]

\* pub fn set_key; the result is <<machine, returned bool>>
set_key(c, key_number, desired_state) ==
    IF key_number < NumKeys
    THEN <<[c EXCEPT !.keypad[key_number] = desired_state], TRUE>>
    ELSE <<c, FALSE>>

\* pub fn get_screen_pixel: the returned PixelState
get_screen_pixel(c, row, col) ==
    IF (row < ScreenRows) /\ (col < ScreenCols)
    THEN Pixel(c.screen, (ScreenCols * row) + col)
    ELSE "Unlit"

\* pub fn set_screen_pixel
set_screen_pixel(c, row, col, desired_state) ==
    IF (row < ScreenRows) /\ (col < ScreenCols)
    THEN [c EXCEPT !.screen = Paint(@, (ScreenCols * row) + col, desired_state)]
    ELSE c

\* pub fn set_program_counter
set_program_counter(c, desired_pc_value) ==
    IF desired_pc_value >= MemSize
    THEN c
    ELSE [c EXCEPT !.program_counter = desired_pc_value]

\* subtract_from_delaycounter without the test for a negative timer.
subtract_from_delaycounter_Unclamped(c, value_to_subtract) ==
    [c EXCEPT !.timer_delay = @ - value_to_subtract]

\* pub fn subtract_from_delaycounter (half units)
subtract_from_delaycounter(c, value_to_subtract) ==
    LET t == c.timer_delay - value_to_subtract
    IN  [c EXCEPT !.timer_delay = IF t < 0 THEN 0 ELSE t]

\* pub fn subtract_from_buzzercounter (half units)
subtract_from_buzzercounter(c, value_to_subtract) ==
    LET t == c.buzzer_delay - value_to_subtract
    IN  [c EXCEPT !.buzzer_delay = IF t < 0 THEN 0 ELSE t]

-----------------------------------------------------------------------------
(* Statements shared by the opcode handlers.  oc says whether the build    *)
(* checks arithmetic overflow (a debug build panics, a release build       *)
(* wraps); a statement after a panic is not run.                           *)

V(c, x) == c.general_registers[x]

\* ((n as u16) << 8) | (nn as u16)
Address(n, nn) == (n * U8) + nn

\* self.program_counter += n
AdvancePC(c, n) ==
    IF c.panicked THEN c
    ELSE [c EXCEPT !.program_counter = (@ + n) % U16]

\* self.tick_delay += 1
Tick(c, oc) ==
    IF c.panicked THEN c
    ELSE IF c.tick_delay + 1 >= U16
         THEN (IF oc THEN Panic(c) ELSE [c EXCEPT !.tick_delay = 0])
         ELSE [c EXCEPT !.tick_delay = @ + 1]

\* ReducePC without the reduction.
ReducePC_Kept(c) == c

\* if self.program_counter >= 4096 { self.program_counter %= 4096 }
ReducePC(c) ==
    IF c.panicked THEN c
    ELSE IF c.program_counter >= 4096
         THEN [c EXCEPT !.program_counter = @ % 4096]
         ELSE c

\* u16 + u16: <<sum, overflowed>>
AddU16(a, b) == <<(a + b) % U16, a + b >= U16>>

-----------------------------------------------------------------------------
(* The opcode handlers.                                                    *)

opcode_CLS(c, oc) ==
    LET c1 == [c EXCEPT !.screen = @ \ Range(0, 64 * 32)]
    IN  Tick(AdvancePC(c1, 2), oc)

opcode_SYS(c, oc) == Tick(AdvancePC(c, 2), oc)

opcode_RET(c, oc) ==
    LET c1 == [c EXCEPT !.program_counter = (c.stack[c.stack_pointer] + 2) % U16]
        c2 == IF c1.stack_pointer = 0
              THEN [c1 EXCEPT !.stack_pointer = 15]
              ELSE [c1 EXCEPT !.stack_pointer = @ - 1]
    IN  Tick(ReducePC(c2), oc)

opcode_JP(c, n, nn, oc) ==
    Tick([c EXCEPT !.program_counter = Address(n, nn)], oc)

\* opcode_CALL storing the counter before it moves the stack pointer.
opcode_CALL_StoreFirst(c, n, nn, oc) ==
    LET c1 == [c EXCEPT !.stack[c.stack_pointer] = c.program_counter]
        c2 == [c1 EXCEPT !.stack_pointer = (@ + 1) % StackSize]
        c3 == [c2 EXCEPT !.program_counter = Address(n, nn)]
    IN  Tick(c3, oc)

opcode_CALL(c, n, nn, oc) ==
    LET c1 == [c EXCEPT !.stack_pointer = @ + 1]
        c2 == IF c1.stack_pointer > 15
              THEN [c1 EXCEPT !.stack_pointer = 0]
              ELSE c1
        c3 == [c2 EXCEPT !.stack[c2.stack_pointer] = c2.program_counter]
        c4 == [c3 EXCEPT !.program_counter = Address(n, nn)]
    IN  Tick(c4, oc)

opcode_SE_VX(c, vx, kk, oc) ==
    Tick(AdvancePC(c, IF kk = V(c, vx) THEN 4 ELSE 2), oc)

opcode_SNE_VX(c, vx, kk, oc) ==
    Tick(AdvancePC(c, IF kk # V(c, vx) THEN 4 ELSE 2), oc)

opcode_SE_VX_VY(c, vx, vy, oc) ==
    Tick(AdvancePC(c, IF V(c, vx) = V(c, vy) THEN 4 ELSE 2), oc)

opcode_LD_VX(c, vx, kk, oc) ==
    Tick(AdvancePC([c EXCEPT !.general_registers[vx] = kk], 2), oc)

opcode_ADD_VX(c, vx, kk, oc) ==
    Tick(AdvancePC([c EXCEPT !.general_registers[vx] = WrappingAdd8(@, kk)], 2), oc)

opcode_LD_VX_VY(c, vx, vy, oc) ==
    Tick(AdvancePC([c EXCEPT !.general_registers[vx] = V(c, vy)], 2), oc)

opcode_OR_VX_VY(c, vx, vy, oc) ==
    Tick(AdvancePC([c EXCEPT !.general_registers[vx] = BitOr(@, V(c, vy))], 2), oc)

opcode_AND_VX_VY(c, vx, vy, oc) ==
    Tick(AdvancePC([c EXCEPT !.general_registers[vx] = BitAnd(@, V(c, vy))], 2), oc)

opcode_XOR_VX_VY(c, vx, vy, oc) ==
    Tick(AdvancePC([c EXCEPT !.general_registers[vx] = BitXor(@, V(c, vy))], 2), oc)

opcode_ADD_VX_VY(c, vx, vy, oc) ==
    LET c1 == [c EXCEPT !.general_registers[15] =
                            IF V(c, vx) + V(c, vy) > 255 THEN 1 ELSE 0]
        c2 == [c1 EXCEPT !.general_registers[vx] =
                            WrappingSub8(V(c1, vx), V(c1, vy))]
    IN  Tick(AdvancePC(c2, 2), oc)

opcode_SUB_VX_VY(c, vx, vy, oc) ==
    LET c1 == [c EXCEPT !.general_registers[15] =
                            IF V(c, vx) - V(c, vy) < 0 THEN 0 ELSE 1]
        c2 == [c1 EXCEPT !.general_registers[vx] =
                            WrappingSub8(V(c1, vx), V(c1, vy))]
    IN  Tick(AdvancePC(c2, 2), oc)

opcode_SHR_VX(c, vx, oc) ==
    LET c1 == [c EXCEPT !.general_registers[15] =
                            IF BitAnd(V(c, vx), 1) # 0 THEN 1 ELSE 0]
        c2 == [c1 EXCEPT !.general_registers[vx] = @ \div 2]
    IN  Tick(AdvancePC(c2, 2), oc)

opcode_SUBN_VX_VY(c, vx, vy, oc) ==
    LET c1 == [c EXCEPT !.general_registers[15] =
                            IF V(c, vy) - V(c, vx) < 0 THEN 0 ELSE 1]
        c2 == [c1 EXCEPT !.general_registers[vx] =
                            WrappingSub8(V(c1, vx), V(c1, vy))]
    IN  Tick(AdvancePC(c2, 2), oc)

\* self.general_registers[vx] <<= 2
opcode_SHL_VX(c, vx, oc) ==
    LET c1 == [c EXCEPT !.general_registers[15] =
                            IF BitAnd(V(c, vx), 128) = 0 THEN 0 ELSE 1]
        c2 == [c1 EXCEPT !.general_registers[vx] = (@ * 4) % U8]
    IN  Tick(AdvancePC(c2, 2), oc)

opcode_SNE_VX_VY(c, vx, vy, oc) ==
    Tick(AdvancePC(c, IF V(c, vx) # V(c, vy) THEN 4 ELSE 2), oc)

opcode_LD_I(c, n, nn, oc) ==
    Tick(AdvancePC([c EXCEPT !.index = Address(n, nn)], 2), oc)

\* opcode_JP_V0 without the offset.
opcode_JP_V0_NoOffset(c, n, nn, oc) ==
    Tick([c EXCEPT !.program_counter = Address(n, nn)], oc)

opcode_JP_V0(c, n, nn, oc) ==
    Tick([c EXCEPT !.program_counter = (Address(n, nn) + V(c, 0)) % U16], oc)

\* rnd is the byte drawn from the generator
opcode_RND_VX(c, vx, kk, rnd, oc) ==
    Tick(AdvancePC([c EXCEPT !.general_registers[vx] = BitAnd(kk, rnd)], 2), oc)

\* match (current_pixel, pixel), with a collision turned on.
DrawnPixel_Or(current_pixel, pixel) ==
    IF current_pixel = "Unlit" /\ pixel = "Lit" THEN <<"Lit", FALSE>>
    ELSE IF current_pixel = "Lit" /\ pixel = "Lit" THEN <<"Lit", TRUE>>
    ELSE IF current_pixel = "Unlit" /\ pixel = "Unlit" THEN <<"Unlit", FALSE>>
    ELSE <<"Lit", FALSE>>

\* match (current_pixel, pixel): the pixel written, and whether VF is set
DrawnPixel(current_pixel, pixel) ==
    IF current_pixel = "Unlit" /\ pixel = "Lit" THEN <<"Lit", FALSE>>
    ELSE IF current_pixel = "Lit" /\ pixel = "Lit" THEN <<"Unlit", TRUE>>
    ELSE IF current_pixel = "Unlit" /\ pixel = "Unlit" THEN <<"Unlit", FALSE>>
    ELSE <<"Lit", FALSE>>

\* The loops of opcode_DRW_VX_VY from the row current_sprite_pixel_y on.  The
\* eight pixels of a row are eight different pixels of the screen, and each
\* reads the same byte of memory, so the inner loop is taken in one step.
RECURSIVE DrawFrom(_, _, _, _, _, _)
DrawFrom(c, x_pos, y_pos, n, current_sprite_pixel_y, oc) ==
    IF c.panicked \/ current_sprite_pixel_y >= n THEN c
    ELSE
      LET sy == current_sprite_pixel_y + y_pos
          screen_pixel_y == IF sy > 31 THEN sy % 32 ELSE sy
          screen_pixel_x(current_sprite_pixel_x) ==
              LET sx == current_sprite_pixel_x + x_pos
              IN  IF sx > 63 THEN sx % 64 ELSE sx
          sum  == AddU16(c.index, current_sprite_pixel_y)
      IN  IF (sum[2] /\ oc) \/ sum[1] >= MemSize
          THEN Panic(c)
          ELSE
            LET byte == Byte(c.memory, sum[1])
                \* (0b10000000 >> x) & byte: bit 7 - x of the byte
                pixel_bit(current_sprite_pixel_x) ==
                    (byte \div (2 ^ (7 - current_sprite_pixel_x))) % 2
                pixel(current_sprite_pixel_x) ==
                    IF pixel_bit(current_sprite_pixel_x) # 0 THEN "Lit" ELSE "Unlit"
                at(current_sprite_pixel_x) ==
                    screen_pixel_x(current_sprite_pixel_x) + (screen_pixel_y * 64)
                drawn == [x \in 0 .. 7 |->
                             DrawnPixel(Pixel(c.screen, at(x)), pixel(x))]
                lit   == {at(x) : x \in {x \in 0 .. 7 : drawn[x][1] = "Lit"}}
                row   == {at(x) : x \in 0 .. 7}
                c1 == [c EXCEPT !.screen = (@ \ row) \cup lit,
                                !.general_registers[15] =
                                    IF \E x \in 0 .. 7 : drawn[x][2] THEN 1 ELSE @]
            IN  DrawFrom(c1, x_pos, y_pos, n, current_sprite_pixel_y + 1, oc)

\* opcode_DRW_VX_VY without self.general_registers[0xF] = 0 before the loops.
opcode_DRW_VX_VY_FlagKept(c, vx0, vy0, n, oc) ==
    LET vx == vx0 % 64
        vy == vy0 % 32
        x_pos == V(c, vx)
        y_pos == V(c, vy)
        c2 == DrawFrom(c, x_pos, y_pos, n, 0, oc)
    IN  Tick(AdvancePC(c2, 2), oc)

opcode_DRW_VX_VY(c, vx0, vy0, n, oc) ==
    LET vx == vx0 % 64
        vy == vy0 % 32
        x_pos == V(c, vx)
        y_pos == V(c, vy)
        c1 == [c EXCEPT !.general_registers[15] = 0]
        c2 == DrawFrom(c1, x_pos, y_pos, n, 0, oc)
    IN  Tick(AdvancePC(c2, 2), oc)

\* self.keypad[self.general_registers[vx] as usize] panics for a value >= 16
opcode_SKP_VX(c, vx, oc) ==
    IF vx > 15 THEN AdvancePC(c, 2)
    ELSE IF V(c, vx) >= NumKeys THEN Panic(c)
    ELSE Tick(AdvancePC(c, IF c.keypad[V(c, vx)] = "Pressed" THEN 4 ELSE 2), oc)

\* self.keypad[vx as usize]
opcode_SKNP_VX(c, vx, oc) ==
    IF vx > 15 THEN AdvancePC(c, 2)
    ELSE Tick(AdvancePC(c, IF c.keypad[vx] = "Unpressed" THEN 4 ELSE 2), oc)

\* self.timer_delay.ceil() as u8 (the cast saturates)
CeilToU8(t) ==
    LET ceil == (t + 1) \div 2
    IN  IF ceil > 255 THEN 255 ELSE IF ceil < 0 THEN 0 ELSE ceil

opcode_LD_VX_DT(c, vx, oc) ==
    Tick(AdvancePC([c EXCEPT !.general_registers[vx] = CeilToU8(c.timer_delay)], 2), oc)

\* opcode_LD_VX_K without the call of save_keypad.
opcode_LD_VX_K_NoSnapshot(c, vx) ==
    [c EXCEPT !.temp_vx = vx, !.device_state = "WaitingForKeypress"]

opcode_LD_VX_K(c, vx) ==
    save_keypad([c EXCEPT !.temp_vx = vx,
                          !.device_state = "WaitingForKeypress"])

opcode_LD_VX_K_CONT(c, vx, pressed_key, oc) ==
    LET c1 == [c EXCEPT !.general_registers[vx] = pressed_key]
    IN  ReducePC(Tick(AdvancePC(c1, 2), oc))

opcode_LD_DT_VX(c, vx, oc) ==
    Tick(AdvancePC([c EXCEPT !.timer_delay = 2 * V(c, vx)], 2), oc)

opcode_LD_ST_VX(c, vx, oc) ==
    Tick(AdvancePC([c EXCEPT !.buzzer_delay = 2 * V(c, vx)], 2), oc)

\* self.index.wrapping_add(..)
opcode_ADD_I_VX(c, vx, oc) ==
    Tick(AdvancePC([c EXCEPT !.index = (@ + V(c, vx)) % U16], 2), oc)

\* self.index = 5 * (self.general_registers[vx] as u16)
opcode_LD_F_VX(c, vx) ==
    AdvancePC([c EXCEPT !.index = 5 * V(c, vx)], 2)

\* The loop of opcode_LD_B_VX from pass i on.
RECURSIVE StoreDigitsFrom(_, _, _, _)
StoreDigitsFrom(c, result, i, oc) ==
    IF c.panicked \/ i >= 3 THEN c
    ELSE LET sum == AddU16(c.index, i)
         IN  IF sum[2] /\ oc THEN Panic(c)
             ELSE IF sum[1] >= 4096 THEN c
             ELSE StoreDigitsFrom([c EXCEPT !.memory = Store(@, sum[1], result[i + 1])],
                                  result, i + 1, oc)

opcode_LD_B_VX(c, vx, oc) ==
    LET value == V(c, vx)
        r0 == value \div 100
        r1 == (value - r0) \div 10
        r2 == value - (r0 + r1)
    IN  AdvancePC(StoreDigitsFrom(c, <<r0, r1, r2>>, 0, oc), 2)

\* The loop of opcode_LD_iIi_VX from register_number on.
RECURSIVE StoreRegistersFrom(_, _, _, _)
StoreRegistersFrom(c, vx, register_number, oc) ==
    IF c.panicked \/ register_number > vx THEN c
    ELSE LET sum == AddU16(c.index, register_number)
         IN  IF sum[2] /\ oc THEN Panic(c)
             ELSE IF (sum[1] >= 4096) \/ (vx > 15) THEN c
             ELSE StoreRegistersFrom(
                      [c EXCEPT !.memory = Store(@, sum[1], V(c, register_number))],
                      vx, register_number + 1, oc)

\* opcode_LD_iIi_VX leaving the index after the last register stored.
opcode_LD_iIi_VX_IndexMoved(c, vx, oc) ==
    AdvancePC([StoreRegistersFrom(c, vx, 0, oc) EXCEPT !.index = (@ + vx + 1) % U16], 2)

opcode_LD_iIi_VX(c, vx, oc) ==
    AdvancePC(StoreRegistersFrom(c, vx, 0, oc), 2)

\* The loop of opcode_LD_VX_iIi from register_number on.
RECURSIVE LoadRegistersFrom(_, _, _, _)
LoadRegistersFrom(c, vx, register_number, oc) ==
    IF c.panicked \/ register_number > vx THEN c
    ELSE LET sum == AddU16(c.index, register_number)
         IN  IF sum[2] /\ oc THEN Panic(c)
             ELSE IF (sum[1] >= 4096) \/ (vx > 15) THEN c
             ELSE LoadRegistersFrom(
                      [c EXCEPT !.general_registers[register_number] =
                                    Byte(c.memory, sum[1])],
                      vx, register_number + 1, oc)

opcode_LD_VX_iIi(c, vx, oc) ==
    AdvancePC(LoadRegistersFrom(c, vx, 0, oc), 2)

-----------------------------------------------------------------------------
(* Fetch, decode, execute.                                                 *)

\* The addresses execute reads in the Ready state:
\* self.memory[pc as usize] and self.memory[(pc as usize) + 1]
FetchAddresses(c) == <<c.program_counter, c.program_counter + 1>>

\* The four nibbles of the instruction at the program counter.
Nibbles(c) ==
    LET hi == Byte(c.memory, FetchAddresses(c)[1])
        lo == Byte(c.memory, FetchAddresses(c)[2])
    IN  <<hi \div 16, hi % 16, lo \div 16, lo % 16>>

\* match (nibble3, nibble2, nibble1, nibble0): the arm taken
Decode(nibble3, nibble2, nibble1, nibble0) ==
    CASE nibble3 = 0 /\ nibble2 = 0 /\ nibble1 = 14 /\ nibble0 = 0  -> "CLS"
      [] nibble3 = 0 /\ nibble2 = 0 /\ nibble1 = 14 /\ nibble0 = 14 -> "RET"
      [] nibble3 = 0 /\ ~(nibble2 = 0 /\ nibble1 = 14 /\ nibble0 \in {0, 14})
                                   -> "SYS"
      [] nibble3 = 1               -> "JP"
      [] nibble3 = 2               -> "CALL"
      [] nibble3 = 3               -> "SE_VX"
      [] nibble3 = 4               -> "SNE_VX"
      [] nibble3 = 5 /\ nibble0 = 0  -> "SE_VX_VY"
      [] nibble3 = 6               -> "LD_VX"
      [] nibble3 = 7               -> "ADD_VX"
      [] nibble3 = 8 /\ nibble0 = 0  -> "LD_VX_VY"
      [] nibble3 = 8 /\ nibble0 = 1  -> "OR_VX_VY"
      [] nibble3 = 8 /\ nibble0 = 2  -> "AND_VX_VY"
      [] nibble3 = 8 /\ nibble0 = 3  -> "XOR_VX_VY"
      [] nibble3 = 8 /\ nibble0 = 4  -> "ADD_VX_VY"
      [] nibble3 = 8 /\ nibble0 = 5  -> "SUB_VX_VY"
      [] nibble3 = 8 /\ nibble0 = 6  -> "SHR_VX"
      [] nibble3 = 8 /\ nibble0 = 7  -> "SUBN_VX_VY"
      [] nibble3 = 8 /\ nibble0 = 14 -> "SHL_VX"
      [] nibble3 = 9 /\ nibble0 = 0  -> "SNE_VX_VY"
      [] nibble3 = 10              -> "LD_I"
      [] nibble3 = 11              -> "JP_V0"
      [] nibble3 = 12              -> "RND_VX"
      [] nibble3 = 13              -> "DRW_VX_VY"
      [] nibble3 = 14 /\ nibble1 = 9  /\ nibble0 = 14 -> "SKP_VX"
      [] nibble3 = 14 /\ nibble1 = 10 /\ nibble0 = 1  -> "SKNP_VX"
      [] nibble3 = 15 /\ nibble1 = 0 /\ nibble0 = 7   -> "LD_VX_DT"
      [] nibble3 = 15 /\ nibble1 = 0 /\ nibble0 = 10  -> "LD_VX_K"
      [] nibble3 = 15 /\ nibble1 = 1 /\ nibble0 = 5   -> "LD_DT_VX"
      [] nibble3 = 15 /\ nibble1 = 1 /\ nibble0 = 8   -> "LD_ST_VX"
      [] nibble3 = 15 /\ nibble1 = 1 /\ nibble0 = 14  -> "ADD_I_VX"
      [] nibble3 = 15 /\ nibble1 = 2 /\ nibble0 = 9   -> "LD_F_VX"
      [] nibble3 = 15 /\ nibble1 = 3 /\ nibble0 = 3   -> "LD_B_VX"
      [] nibble3 = 15 /\ nibble1 = 5 /\ nibble0 = 5   -> "LD_iIi_VX"
      [] nibble3 = 15 /\ nibble1 = 6 /\ nibble0 = 5   -> "LD_VX_iIi"
      [] OTHER                     -> "none"

\* The last arm skipping the word.
NoArm_Skips(c) == [c EXCEPT !.program_counter = (@ + 2) % U16]

\* (_, _, _, _) => ()
NoArm(c) == c

\* The arm of the match, run on the machine c.
Dispatch(c, nibble3, nibble2, nibble1, nibble0, rnd, oc) ==
    LET arm == Decode(nibble3, nibble2, nibble1, nibble0)
        kk  == (nibble1 * 16) + nibble0
    IN  CASE arm = "CLS"        -> opcode_CLS(c, oc)
          [] arm = "RET"        -> opcode_RET(c, oc)
          [] arm = "SYS"        -> opcode_SYS(c, oc)
          [] arm = "JP"         -> opcode_JP(c, nibble2, kk, oc)
          [] arm = "CALL"       -> opcode_CALL(c, nibble2, kk, oc)
          [] arm = "SE_VX"      -> opcode_SE_VX(c, nibble2, kk, oc)
          [] arm = "SNE_VX"     -> opcode_SNE_VX(c, nibble2, kk, oc)
          [] arm = "SE_VX_VY"   -> opcode_SE_VX_VY(c, nibble2, nibble1, oc)
          [] arm = "LD_VX"      -> opcode_LD_VX(c, nibble2, kk, oc)
          [] arm = "ADD_VX"     -> opcode_ADD_VX(c, nibble2, kk, oc)
          [] arm = "LD_VX_VY"   -> opcode_LD_VX_VY(c, nibble2, nibble1, oc)
          [] arm = "OR_VX_VY"   -> opcode_OR_VX_VY(c, nibble2, nibble1, oc)
          [] arm = "AND_VX_VY"  -> opcode_AND_VX_VY(c, nibble2, nibble1, oc)
          [] arm = "XOR_VX_VY"  -> opcode_XOR_VX_VY(c, nibble2, nibble1, oc)
          [] arm = "ADD_VX_VY"  -> opcode_ADD_VX_VY(c, nibble2, nibble1, oc)
          [] arm = "SUB_VX_VY"  -> opcode_SUB_VX_VY(c, nibble2, nibble1, oc)
          [] arm = "SHR_VX"     -> opcode_SHR_VX(c, nibble2, oc)
          [] arm = "SUBN_VX_VY" -> opcode_SUBN_VX_VY(c, nibble2, nibble1, oc)
          [] arm = "SHL_VX"     -> opcode_SHL_VX(c, nibble2, oc)
          [] arm = "SNE_VX_VY"  -> opcode_SNE_VX_VY(c, nibble2, nibble1, oc)
          [] arm = "LD_I"       -> opcode_LD_I(c, nibble2, kk, oc)
          [] arm = "JP_V0"      -> opcode_JP_V0(c, nibble2, kk, oc)
          [] arm = "RND_VX"     -> opcode_RND_VX(c, nibble2, kk, rnd, oc)
          [] arm = "DRW_VX_VY"  -> opcode_DRW_VX_VY(c, nibble2, nibble1, nibble0, oc)
          [] arm = "SKP_VX"     -> opcode_SKP_VX(c, nibble2, oc)
          [] arm = "SKNP_VX"    -> opcode_SKNP_VX(c, nibble2, oc)
          [] arm = "LD_VX_DT"   -> opcode_LD_VX_DT(c, nibble2, oc)
          [] arm = "LD_VX_K"    -> opcode_LD_VX_K(c, nibble2)
          [] arm = "LD_DT_VX"   -> opcode_LD_DT_VX(c, nibble2, oc)
          [] arm = "LD_ST_VX"   -> opcode_LD_ST_VX(c, nibble2, oc)
          [] arm = "ADD_I_VX"   -> opcode_ADD_I_VX(c, nibble2, oc)
          [] arm = "LD_F_VX"    -> opcode_LD_F_VX(c, nibble2)
          [] arm = "LD_B_VX"    -> opcode_LD_B_VX(c, nibble2, oc)
          [] arm = "LD_iIi_VX"  -> opcode_LD_iIi_VX(c, nibble2, oc)
          [] arm = "LD_VX_iIi"  -> opcode_LD_VX_iIi(c, nibble2, oc)
          [] OTHER              -> NoArm(c)

\* The loop of check_for_new_key_pressed from key i on.
RECURSIVE CheckKeysFrom(_, _, _)
CheckKeysFrom(c, i, oc) ==
    IF i >= 16 THEN c
    ELSE IF (c.temp_keypad[i] = "Unpressed") /\ (c.keypad[i] = "Pressed")
         THEN opcode_LD_VX_K_CONT([c EXCEPT !.device_state = "Ready"],
                                  c.temp_vx, i, oc)
         ELSE CheckKeysFrom(c, i + 1, oc)

\* The loop of check_for_new_key_pressed run from key i downwards.
RECURSIVE CheckKeysDownFrom(_, _, _)
CheckKeysDownFrom(c, i, oc) ==
    IF i < 0 THEN c
    ELSE IF (c.temp_keypad[i] = "Unpressed") /\ (c.keypad[i] = "Pressed")
         THEN opcode_LD_VX_K_CONT([c EXCEPT !.device_state = "Ready"],
                                  c.temp_vx, i, oc)
         ELSE CheckKeysDownFrom(c, i - 1, oc)

\* check_for_new_key_pressed taking the highest new key.
check_for_new_key_pressed_Highest(c, oc) == CheckKeysDownFrom(c, 15, oc)

\* fn check_for_new_key_pressed
check_for_new_key_pressed(c, oc) == CheckKeysFrom(c, 0, oc)

\* execute with the fetch of the two bytes before the match on device_state.
execute_FetchFirst(c, rnd, oc) ==
    IF \E a \in {FetchAddresses(c)[1], FetchAddresses(c)[2]} : a >= MemSize
    THEN Panic(c)
    ELSE IF c.device_state = "WaitingForKeypress"
         THEN check_for_new_key_pressed(c, oc)
         ELSE LET nib == Nibbles(c)
              IN  ReducePC(Dispatch(c, nib[1], nib[2], nib[3], nib[4], rnd, oc))

\* pub fn execute
execute(c, rnd, oc) ==
    IF c.device_state = "WaitingForKeypress"
    THEN check_for_new_key_pressed(c, oc)
    ELSE IF \E a \in {FetchAddresses(c)[1], FetchAddresses(c)[2]} : a >= MemSize
         THEN Panic(c)
         ELSE LET nib == Nibbles(c)
              IN  ReducePC(Dispatch(c, nib[1], nib[2], nib[3], nib[4], rnd, oc))

-----------------------------------------------------------------------------
(* Program images and the inputs of the host's calls.                      *)

\* The host's loader: set_memory_word for each <<address, word>> of an image
\* (the words of an image are below 4095 and do not overlap).
LoadWords(c, image) ==
    LET WordAt(a) == CHOOSE i \in DOMAIN image : a \in {image[i][1], image[i][1] + 1}
        ByteAt(a) == IF a = image[WordAt(a)][1]
                     THEN image[WordAt(a)][2] \div U8
                     ELSE image[WordAt(a)][2] % U8
        addresses == UNION {{image[i][1], image[i][1] + 1} : i \in DOMAIN image}
    IN  [c EXCEPT !.memory = StoreAll(@, [a \in addresses |-> ByteAt(a)])]

\* A machine constructed, hard-reset and loaded with an image.
Boot(image) == LoadWords(hard_reset(Default), image)

\* 0x200: LD V3,K   0x202: SKP V3   0x204: JP 0xFFE   0xFFE: LD V5,K
ImageKeys ==
    << <<\h200, \hF30A>>, <<\h202, \hE39E>>, <<\h204, \h1FFE>>, <<\hFFE, \hF50A>> >>

\* 0x200: LD V0,0xFF   0x202: JP V0,0xFFF   0x206: RET   0xFFE: CALL 0x206
ImageJumps ==
    << <<\h200, \h60FF>>, <<\h202, \hBFFF>>, <<\h206, \h00EE>>, <<\hFFE, \h2206>> >>

Images == {ImageKeys, ImageJumps}

\* 0x200: JP 0x203   0x203: CALL 0x207   0x207: RET
ImageOddJumps ==
    << <<\h200, \h1203>>, <<\h203, \h2207>>, <<\h207, \h00EE>> >>

\* 0x200: LD V0,1   0x202: JP V0,0x204
ImageOddOffset ==
    << <<\h200, \h6001>>, <<\h202, \hB204>> >>

\* A program that leaves a mark on every part of the machine:
\* 0x200: LD VF,1    0x202: LD V1,7     0x204: LD DT,V1   0x206: LD ST,V1
\* 0x208: LD I,0x2F0 0x20A: LD [I],V1   0x20C: LD F,V1    0x20E: DRW V0,V0,1
\* 0x210: CALL 0x214 0x214: LD V4,K
ImageMarks ==
    << <<\h200, \h6F01>>, <<\h202, \h6107>>, <<\h204, \hF115>>,
       <<\h206, \hF118>>, <<\h208, \hA2F0>>, <<\h20A, \hF155>>,
       <<\h20C, \hF129>>, <<\h20E, \hD001>>, <<\h210, \h2214>>,
       <<\h214, \hF40A>> >>

\* A chain of nested calls: at ChainAt(i) a CALL of ChainAt(i + 1), followed
\* by a RET; the last link is a RET.
ChainAt(i) == ProgramStart + 4 * i

ImageChain ==
    [j \in 1 .. (2 * CallChainLength + 1) |->
        IF j = 2 * CallChainLength + 1 THEN <<ChainAt(CallChainLength), \h00EE>>
        ELSE IF j % 2 = 1
             THEN <<ChainAt((j - 1) \div 2), \h2000 + ChainAt((j + 1) \div 2)>>
             ELSE <<ChainAt((j - 2) \div 2) + 2, \h00EE>>]

\* 0x200: LD V1,2   0x202: LD DT,V1   0x204: LD ST,V1   0x206: LD V2,DT
ImageTimers ==
    << <<\h200, \h6102>>, <<\h202, \hF115>>, <<\h204, \hF118>>,
       <<\h206, \hF207>> >>

\* Programs that load V0, V1 and I and run instructions on the index,
\* 0x200: LD V0,a   0x202: LD V1,b   0x204: LD I,addr   0x206: the words
\* with LD B,V1; LD F,V1; a store and a load of V0..V1, next to each other,
\* around two loads that overwrite V0 and V1, and after ADD I,V1; a store
\* of V0 before a load of V0..V1; ADD I,V1 before LD B,V1; DRW V0,V1,2,
\* and ADD I,V1 before DRW V0,V1,1.
ImagesIndex ==
    {[i \in 1 .. 3 + Len(words) |->
         IF i = 1 THEN <<\h200, \h6000 + a>>
         ELSE IF i = 2 THEN <<\h202, \h6100 + b>>
         ELSE IF i = 3 THEN <<\h204, \hA000 + addr>>
         ELSE <<\h200 + 2 * (i - 1), words[i - 3]>>] :
        a \in {0, 7, \hFF},
        b \in {0, 10, 16, 123, \hFF},
        addr \in {\h300, \hFFD, \hFFE, \hFFF},
        words \in {<<\hF133>>, <<\hF129>>, <<\hF155, \hF165>>,
                   <<\hF155, \h6055, \h6166, \hF165>>,
                   <<\hF11E, \hF155, \hF165>>, <<\hF055, \hF165>>,
                   <<\hF11E, \hF133>>, <<\hD012>>, <<\hF11E, \hD011>>}}

\* Programs that load V3 with a key index and run one key skip on V3,
\* 0x200: LD V3,k   0x202: word
\* with SKP V3 and SKNP V3 on the indices 3 and 5, the last key, the first
\* index past the keypad and the largest byte.
ImagesSkip ==
    {<< <<\h200, \h6300 + k>>, <<\h202, word>> >> :
        word \in {\hE39E, \hE3A1}, k \in {3, 5, 15, 16, 255}}

\* Programs that load V1, V2 and VF and run one arithmetic instruction,
\* 0x200: LD V1,a   0x202: LD V2,b   0x204: LD VF,f   0x206: word
\* with ADD, SUB, SUBN and SHL on V1 and V2, on VF and V2, on V1 and VF and
\* on V1 and V1, over operands on both sides of every carry, borrow and top
\* bit.
ImagesAlu ==
    {<< <<\h200, \h6100 + a>>, <<\h202, \h6200 + b>>, <<\h204, \h6F00 + f>>,
        <<\h206, word>> >> :
        word \in {\h8124, \h8125, \h8127, \h812E,
                  \h8F24, \h8F25, \h8F27, \h8F2E,
                  \h81F4, \h81F5, \h81F7,
                  \h8114, \h8115, \h8117},
        a \in {0, 1, \h7F, \h80, \hFF},
        b \in {0, 1, \h7F, \h80, \hFF},
        f \in {0, 5}}

\* A program that draws the n-byte sprite at addr three times at (xx, yy) and
\* then twice at (VF, yy):
\* 0x200: LD V1,xx   0x202: LD V2,yy   0x204: LD I,addr
\* 0x206, 0x208, 0x20A: DRW V1,V2,n    0x20C, 0x20E: DRW VF,V2,n
ImageDraw(xx, yy, addr, n) ==
    << <<\h200, \h6100 + xx>>, <<\h202, \h6200 + yy>>, <<\h204, \hA000 + addr>>,
       <<\h206, \hD120 + n>>, <<\h208, \hD120 + n>>, <<\h20A, \hD120 + n>>,
       <<\h20C, \hDF20 + n>>, <<\h20E, \hDF20 + n>> >>

\* Origins on the screen, at its last rows and columns and beyond it; the
\* glyphs 0 and F of the font (the second runs into the zero bytes after the
\* font) and an empty sprite; heights.
DrawOrigins == {<<0, 0>>, <<60, 30>>, <<255, 255>>}
DrawSprites == {0, 75, \h300}
DrawHeights == {1, 5, 15}

ImagesDraw ==
    {ImageDraw(at[1], at[2], addr, n) :
        at \in DrawOrigins, addr \in DrawSprites, n \in DrawHeights}

\* The inputs of the host's calls: addresses and values given to
\* set_memory_byte and set_memory_word, key numbers given
\* to set_key, addresses given to set_program_counter, amounts given to the
\* timer calls (in half units), <<row, col>> given to the pixel calls.
ByteAddressInputs == {4095}
ByteInputs == {\hEE}
KeyInputs == {5}
WaitKeyInputs == {5, 15}
MemoryAddressInputs == {0, 4094, 4095, 4096, 65535}
MemoryByteInputs == {0, \hFF}
MemoryWordInputs == {\h1234}
ReturnInputs == {\h202}
\* Words that match no arm of the decoder, and LD VA,1 and LD I,0x123.
InstructionWordInputs ==
    {\h5121, \h512F, \h8128, \h812D, \h812F, \h9121, \hE100, \hE19F, \hE1A0,
     \hF100, \hF108, \hF166, \hF1FF, \h6A01, \hA123}
KeyStates == {"Pressed", "Unpressed"}
CounterInputs == {4094, 4095, 4096}
DecayInputs == {1}
PixelInputs == {<<0, 0>>}
\* Amounts of 0, 1/2 and 3/2.
TimerDecayInputs == {0, 1, 3}
DrawPixelInputs == {<<0, 0>>, <<31, 63>>, <<32, 0>>}
PixelStates == {"Lit", "Unlit"}

-----------------------------------------------------------------------------
(* History.                                                                *)

NoKeyPhase == [i \in Range(0, NumKeys) |-> "none"]

\* The record of a call: its name and arguments, what it returned, and the
\* program counter and run state it found.
Call(op, a, b, ret) ==
    [op |-> op, a |-> a, b |-> b, ret |-> ret,
     pc_before |-> program_counter, state_before |-> device_state,
     arm |-> "", word |-> 0, shown |-> {}]

BoolName(b) == IF b THEN "true" ELSE "false"

\* What execute does in the state c: poll the keys, fault on the fetch, or
\* run an arm of the match.
ArmOf(c) ==
    IF c.device_state = "WaitingForKeypress" THEN "poll"
    ELSE IF FetchAddresses(c)[2] >= MemSize THEN "fetch_fault"
    ELSE LET nib == Nibbles(c) IN Decode(nib[1], nib[2], nib[3], nib[4])

WordOf(c) ==
    IF ArmOf(c) \in {"poll", "fetch_fault"} THEN 0
    ELSE (Byte(c.memory, c.program_counter) * U8)
         + Byte(c.memory, c.program_counter + 1)

\* The origin <<x_pos, y_pos>> of the sprite a DRW about to run draws.
DrawOrigin(c) ==
    IF ArmOf(c) = "DRW_VX_VY"
    THEN <<V(c, Nibbles(c)[2]), V(c, Nibbles(c)[3])>>
    ELSE <<0, 0>>

\* The bytes the generator can return: drawn only by the RND arm.
RandomBytes(c) == IF ArmOf(c) = "RND_VX" THEN Range(0, U8) ELSE {0}

\* A build checks arithmetic overflow (debug) or wraps (release).
OverflowChecks == BOOLEAN

-----------------------------------------------------------------------------
(* The actions: one per public method.                                     *)

\* The machine is one of machines; no call has been made on it.
InitFrom(machines) ==
    /\ \E c \in machines :
          /\ device_state      = c.device_state
          /\ tick_delay        = c.tick_delay
          /\ opcode            = c.opcode
          /\ index             = c.index
          /\ program_counter   = c.program_counter
          /\ timer_delay       = c.timer_delay
          /\ buzzer_delay      = c.buzzer_delay
          /\ stack_pointer     = c.stack_pointer
          /\ temp_vx           = c.temp_vx
          /\ stack             = c.stack
          /\ general_registers = c.general_registers
          /\ memory            = c.memory
          /\ keypad            = c.keypad
          /\ temp_keypad       = c.temp_keypad
          /\ screen            = c.screen
          /\ panicked          = c.panicked
    /\ last = Call(IF Cur = Default THEN "new" ELSE "load", 0, 0, "none")
    /\ key_phase = NoKeyPhase
    /\ calls = <<>>
    /\ odd_target = FALSE

SoftReset ==
    /\ ~panicked
    /\ Becomes(soft_reset(Cur))
    /\ last' = Call("soft_reset", 0, 0, "none")
    /\ key_phase' = NoKeyPhase
    /\ calls' = <<>>
    /\ UNCHANGED odd_target

HardReset ==
    /\ ~panicked
    /\ Becomes(hard_reset(Cur))
    /\ last' = Call("hard_reset", 0, 0, "none")
    /\ key_phase' = NoKeyPhase
    /\ calls' = <<>>
    /\ UNCHANGED odd_target

SetMemoryByteOf(addresses, bytes) ==
    /\ ~panicked
    /\ \E address \in addresses, byte \in bytes :
          LET r == set_memory_byte(Cur, address, byte)
          IN  /\ Becomes(r[1])
              /\ last' = Call("set_memory_byte", address, byte, BoolName(r[2]))
    /\ UNCHANGED <<key_phase, calls, odd_target>>

SetMemoryWordOf(addresses, words) ==
    /\ ~panicked
    /\ \E address \in addresses, word \in words :
          LET r == set_memory_word(Cur, address, word)
          IN  /\ Becomes(r[1])
              /\ last' = Call("set_memory_word", address, word,
                              IF r[1].panicked THEN "panic" ELSE BoolName(r[2]))
    /\ UNCHANGED <<key_phase, calls, odd_target>>

\* The presses of a key since the wait began: held when it began, released
\* since, pressed again after a release.
KeyPhaseAfter(phase, desired_state) ==
    IF device_state # "WaitingForKeypress" THEN "none"
    ELSE IF desired_state = "Unpressed"
         THEN (IF phase \in {"held", "repressed"} THEN "released" ELSE phase)
         ELSE (IF phase = "released" THEN "repressed" ELSE phase)

SetKeyOf(keys) ==
    /\ ~panicked
    /\ \E key_number \in keys, desired_state \in KeyStates :
          LET r == set_key(Cur, key_number, desired_state)
          IN  /\ Becomes(r[1])
              /\ last' = Call("set_key", key_number, desired_state, BoolName(r[2]))
              /\ key_phase' = IF key_number \in DOMAIN key_phase
                              THEN [key_phase EXCEPT ![key_number] =
                                       KeyPhaseAfter(@, desired_state)]
                              ELSE key_phase
    /\ UNCHANGED <<calls, odd_target>>

GetScreenPixelOf(pixels) ==
    /\ ~panicked
    /\ \E at \in pixels :
          last' = Call("get_screen_pixel", at[1], at[2],
                       get_screen_pixel(Cur, at[1], at[2]))
    /\ UNCHANGED <<fields, panicked, key_phase, calls, odd_target>>

SetScreenPixelOf(pixels) ==
    /\ ~panicked
    /\ \E at \in pixels, desired_state \in PixelStates :
          /\ Becomes(set_screen_pixel(Cur, at[1], at[2], desired_state))
          /\ last' = Call("set_screen_pixel", at, desired_state, "none")
    /\ UNCHANGED <<key_phase, calls, odd_target>>

SetProgramCounterOf(values) ==
    /\ ~panicked
    /\ \E desired_pc_value \in values :
          /\ Becomes(set_program_counter(Cur, desired_pc_value))
          /\ last' = Call("set_program_counter", desired_pc_value, 0, "none")
          /\ odd_target' = (odd_target \/ (desired_pc_value < MemSize
                                             /\ desired_pc_value % 2 = 1))
    /\ UNCHANGED <<key_phase, calls>>

SubtractFromDelayCounterOf(amounts) ==
    /\ ~panicked
    /\ \E value_to_subtract \in amounts :
          /\ Becomes(subtract_from_delaycounter(Cur, value_to_subtract))
          /\ last' = Call("subtract_from_delaycounter", value_to_subtract, 0, "none")
    /\ UNCHANGED <<key_phase, calls, odd_target>>

SubtractFromBuzzerCounterOf(amounts) ==
    /\ ~panicked
    /\ \E value_to_subtract \in amounts :
          /\ Becomes(subtract_from_buzzercounter(Cur, value_to_subtract))
          /\ last' = Call("subtract_from_buzzercounter", value_to_subtract, 0, "none")
    /\ UNCHANGED <<key_phase, calls, odd_target>>

\* The arm is a jump and its target, nnn or nnn + V0, is odd.
OddTarget(arm, word) ==
    \/ arm \in {"JP", "CALL"} /\ (word % 4096) % 2 = 1
    \/ arm = "JP_V0" /\ ((word % 4096) + general_registers[0]) % 2 = 1

\* The CALLs not yet returned, after execute has run the given arm.
CallsAfter(arm, c) ==
    IF c.panicked THEN calls
    ELSE IF arm = "CALL"
         THEN LET all == Append(calls, program_counter)
              IN  IF Len(all) > StackSize THEN Tail(all) ELSE all
    ELSE IF arm = "RET" /\ calls # <<>>
         THEN SubSeq(calls, 1, Len(calls) - 1)
    ELSE calls

\* execute, while fewer than ticks instructions have been counted.
ExecuteUpTo(ticks) ==
    /\ ~panicked
    /\ tick_delay < ticks
    /\ \E rnd \in RandomBytes(Cur), oc \in OverflowChecks :
          LET c == execute(Cur, rnd, oc)
              arm == ArmOf(Cur)
          IN  /\ Becomes(c)
              /\ last' = [Call("execute", 0, 0, IF c.panicked THEN "panic" ELSE "none")
                            EXCEPT !.arm = arm, !.word = WordOf(Cur),
                                   !.a = DrawOrigin(Cur)[1],
                                   !.b = DrawOrigin(Cur)[2],
                                   !.shown = IF arm = "DRW_VX_VY" THEN screen ELSE {}]
              /\ key_phase' =
                    IF c.device_state # "WaitingForKeypress" THEN NoKeyPhase
                    ELSE IF arm = "LD_VX_K"
                         THEN [i \in Range(0, NumKeys) |->
                                 IF keypad[i] = "Pressed" THEN "held" ELSE "none"]
                    ELSE key_phase
              /\ calls' = CallsAfter(arm, c)
              /\ odd_target' = (odd_target \/ OddTarget(arm, WordOf(Cur)))

-----------------------------------------------------------------------------
(* The machine under every call of the host, with few inputs.              *)

Init == InitFrom({Default} \cup {Boot(image) : image \in Images})

Next ==
    \/ SoftReset
    \/ HardReset
    \/ SetMemoryByteOf(ByteAddressInputs, ByteInputs)
    \/ SetKeyOf(KeyInputs)
    \/ SetProgramCounterOf(CounterInputs)
    \/ SubtractFromDelayCounterOf(DecayInputs)
    \/ SubtractFromBuzzerCounterOf(DecayInputs)
    \/ ExecuteUpTo(MaxTicks)

Spec == Init /\ [][Next]_vars

\* The resets, called at any point of a program that marks every part of
\* the machine.
InitReset == InitFrom({Boot(ImageMarks)})

NextReset ==
    \/ SoftReset
    \/ HardReset
    \/ SetKeyOf(KeyInputs)
    \/ ExecuteUpTo(MaxResetTicks)

SpecReset == InitReset /\ [][NextReset]_vars

\* The key wait: a program of two LD Vx,K, the second at 0xFFE, and a host
\* that presses and releases keys at any point.
InitKeys == InitFrom({Boot(ImageKeys)})

NextKeys ==
    \/ SetKeyOf(WaitKeyInputs)
    \/ ExecuteUpTo(MaxKeyTicks)

SpecKeys == InitKeys /\ [][NextKeys]_vars

\* The memory writes of the host, in and out of range.
InitMemory == InitFrom({Default, Boot(ImageKeys)})

NextMemory ==
    \/ SetMemoryByteOf(MemoryAddressInputs, MemoryByteInputs)
    \/ SetMemoryWordOf(MemoryAddressInputs, MemoryWordInputs)

SpecMemory == InitMemory /\ [][NextMemory]_vars

\* The call stack: the chain of nested calls, a host that sends the program
\* to a RET at any depth, and soft resets.
InitCalls == InitFrom({Boot(ImageChain)})

NextCalls ==
    \/ SoftReset
    \/ SetProgramCounterOf(ReturnInputs)
    \/ ExecuteUpTo(MaxCallTicks)

SpecCalls == InitCalls /\ [][NextCalls]_vars

\* Instruction words written at 0x200 by the host and executed.
InitWords == InitFrom({Boot(<<>>)})

NextWords ==
    \/ SetMemoryWordOf({ProgramStart}, InstructionWordInputs)
    \/ SetProgramCounterOf({ProgramStart})
    \/ ExecuteUpTo(MaxWordTicks)

SpecWords == InitWords /\ [][NextWords]_vars

\* The display: programs that draw a sprite several times in a row, and a
\* host that reads and sets pixels in between.
InitDraw == InitFrom({Boot(image) : image \in ImagesDraw})

NextDraw ==
    \/ GetScreenPixelOf(DrawPixelInputs)
    \/ SetScreenPixelOf(DrawPixelInputs)
    \/ ExecuteUpTo(MaxDrawTicks)

SpecDraw == InitDraw /\ [][NextDraw]_vars

\* The timers: a program that sets and reads them, decays of the host and
\* resets, in any order.
InitTimers == InitFrom({Boot(ImageTimers)})

NextTimers ==
    \/ SoftReset
    \/ HardReset
    \/ SubtractFromDelayCounterOf(TimerDecayInputs)
    \/ SubtractFromBuzzerCounterOf(TimerDecayInputs)
    \/ ExecuteUpTo(MaxTimerTicks)

SpecTimers == InitTimers /\ [][NextTimers]_vars

\* Jumps: programs that jump, call and return to even and to odd addresses,
\* run from a reset with no other call of the host than the resets.
InitJumps == InitFrom({Boot(ImageJumps), Boot(ImageOddJumps), Boot(ImageOddOffset)})

NextJumps ==
    \/ SoftReset
    \/ HardReset
    \/ ExecuteUpTo(MaxJumpTicks)

SpecJumps == InitJumps /\ [][NextJumps]_vars

\* The key skips: the host moves the keys 3 and 5 while a program tests the key
\* named by the value of V3.
NextSkips ==
    \/ SetKeyOf({3, 5})
    \/ ExecuteUpTo(MaxSkipTicks)

SpecSkips == InitFrom({Boot(image) : image \in ImagesSkip}) /\ [][NextSkips]_vars

\* The index instructions: digits, glyph addresses and register transfers.
NextIndex == ExecuteUpTo(MaxIndexTicks)

SpecIndex == InitFrom({Boot(image) : image \in ImagesIndex}) /\ [][NextIndex]_vars

\* The arithmetic: programs that load operands and run one instruction 8xyN.
NextAlu == ExecuteUpTo(MaxAluTicks)

SpecAlu == InitFrom({Boot(image) : image \in ImagesAlu}) /\ [][NextAlu]_vars

-----------------------------------------------------------------------------
(* C1: in every state the program counter is below 4096.  A call of        *)
(* set_program_counter with an address of 4096 or more leaves it as it     *)
(* was.  After an instruction or a completed key wait it is the target     *)
(* reduced modulo 4096: the counter before plus 2 or plus 4, nnn + V0 for  *)
(* JP V0, the saved address plus 2 for RET.                                *)

\* The arms that neither jump nor leave the counter alone.
SteppingArms ==
    {"CLS", "SYS", "SE_VX", "SNE_VX", "SE_VX_VY", "LD_VX", "ADD_VX", "LD_VX_VY",
     "OR_VX_VY", "AND_VX_VY", "XOR_VX_VY", "ADD_VX_VY", "SUB_VX_VY", "SHR_VX",
     "SUBN_VX_VY", "SHL_VX", "SNE_VX_VY", "LD_I", "RND_VX", "DRW_VX_VY",
     "SKP_VX", "SKNP_VX", "LD_VX_DT", "LD_DT_VX", "LD_ST_VX", "ADD_I_VX",
     "LD_F_VX", "LD_B_VX", "LD_iIi_VX", "LD_VX_iIi"}

C1_CounterBelow4096 ==
    /\ program_counter \in 0 .. 4095
    /\ (last.op = "set_program_counter" /\ last.a >= 4096)
          => program_counter = last.pc_before
    /\ (last.op = "execute" /\ ~panicked) =>
          /\ last.arm \in SteppingArms =>
                program_counter \in {(last.pc_before + 2) % 4096,
                                     (last.pc_before + 4) % 4096}
          /\ last.arm = "JP_V0" =>
                program_counter = ((last.word % 4096) + general_registers[0]) % 4096
          /\ last.arm = "RET" =>
                program_counter = (stack[(stack_pointer + 1) % 16] + 2) % 4096
          /\ (last.arm = "poll" /\ device_state = "Ready") =>
                program_counter = (last.pc_before + 2) % 4096

\* JP V0,0xFFF with V0 = 0xFF has gone to 0x10FE - 0x1000.
C1_Witness ==
    /\ last.op = "execute" /\ last.arm = "JP_V0" /\ ~panicked
    /\ (last.word % 4096) + general_registers[0] = 4095 + 255
    /\ program_counter = 254

(* C2: execute in the Ready state never faults on the instruction fetch:   *)
(* whatever the program counter in 0..4095, both bytes of the instruction  *)
(* are read from addresses inside 0..4095.                                 *)
C2_FetchNeverFaults ==
    (last.op = "execute" /\ last.state_before = "Ready")
       => /\ last.arm # "fetch_fault"
          /\ (last.pc_before = 4095 => ~panicked)

(* C3: edge-triggered key capture.  When LD Vx,K was executed with key k   *)
(* held, a step taken while k is still held (and no other key is down)     *)
(* does not complete the wait; once k has been released and pressed again, *)
(* the next step completes it: Vx = k, run state Ready, program counter    *)
(* advanced by 2.                                                          *)
OnlyKeyDown(k) == \A j \in 0 .. 15 : j # k => keypad[j] = "Unpressed"

C3_RepressStep ==
    \A k \in 0 .. 15 :
       (/\ last'.op = "execute"
        /\ device_state = "WaitingForKeypress"
        /\ temp_keypad[k] = "Pressed"
        /\ OnlyKeyDown(k)) =>
          /\ key_phase[k] = "held" => device_state' = "WaitingForKeypress"
          /\ key_phase[k] = "repressed" =>
                /\ device_state' = "Ready"
                /\ general_registers'[temp_vx] = k
                /\ program_counter' = (program_counter + 2) % 4096

C3_EdgeTriggered == [][C3_RepressStep]_vars

(* C4: after hard_reset all sixteen registers V0..VF are 0, all sixteen    *)
(* stack slots are 0, memory holds the font in 0..79 and 0 in 80..4095,    *)
(* every pixel is unlit, every key of the keypad and of the snapshot is    *)
(* unpressed, and the control state is that of a soft reset.               *)
C4_HardResetClearsAll ==
    last.op = "hard_reset" =>
       /\ \A x \in 0 .. 15 : general_registers[x] = 0
       /\ \A slot \in 0 .. 15 : stack[slot] = 0
       /\ \A a \in 0 .. 4095 :
             Byte(memory, a) = IF a < 80 THEN font_set[a + 1] ELSE 0
       /\ \A i \in 0 .. 2047 : Pixel(screen, i) = "Unlit"
       /\ \A k \in 0 .. 15 : keypad[k] = "Unpressed" /\ temp_keypad[k] = "Unpressed"
       /\ program_counter = 512
       /\ index = 0 /\ timer_delay = 0 /\ buzzer_delay = 0
       /\ stack_pointer = 0
       /\ device_state = "Ready"

(* C5: soft_reset sets the program counter to 0x200, the index register,   *)
(* both timers and the stack pointer to 0 and the run state to Ready, and  *)
(* leaves memory, the registers, the display, the keypad and the stack     *)
(* slots as they were; the step after it fetches at 0x200 and does not     *)
(* poll for a key.                                                         *)
C5_SoftResetStep ==
    /\ last'.op = "soft_reset" =>
          /\ program_counter' = 512
          /\ index' = 0 /\ timer_delay' = 0 /\ buzzer_delay' = 0
          /\ stack_pointer' = 0
          /\ device_state' = "Ready"
          /\ ~panicked'
          /\ UNCHANGED <<memory, general_registers, screen, keypad, stack>>
    /\ (last.op = "soft_reset" /\ last'.op = "execute") =>
          /\ last'.state_before = "Ready"
          /\ last'.pc_before = 512
          /\ last'.arm \notin {"poll", "fetch_fault"}
          /\ last'.word = 256 * Byte(memory, 512) + Byte(memory, 513)

SameBytesExcept(addresses) ==
    \A x \in (DOMAIN memory \cup DOMAIN memory') \ addresses :
       Byte(memory', x) = Byte(memory, x)

OnlyMemoryChanges ==
    /\ ~panicked'
    /\ UNCHANGED <<device_state, tick_delay, opcode, index, program_counter,
                   timer_delay, buzzer_delay, stack_pointer, temp_vx, stack,
                   general_registers, keypad, temp_keypad, screen>>

C6_ByteStep ==
    last'.op = "set_memory_byte" =>
       IF last'.a \in 0 .. 4095
       THEN /\ last'.ret = "true"
            /\ Byte(memory', last'.a) = last'.b
            /\ SameBytesExcept({last'.a})
            /\ OnlyMemoryChanges
       ELSE /\ last'.ret = "false"
            /\ SameBytesExcept({})
            /\ OnlyMemoryChanges

C6_ByteWrite == [][C6_ByteStep]_vars

\* 0xFF has been written at the last address of memory.
C6_Witness ==
    /\ last.op = "set_memory_byte" /\ last.a = 4095 /\ last.b = 255
    /\ last.ret = "true"
    /\ Byte(memory, 4095) = 255

(* C7: set_memory_word(a, w) returns true exactly when a and a + 1 are     *)
(* both below 4096, and then memory[a] is the high byte and memory[a + 1]  *)
(* the low byte of w; otherwise it returns false without a fault and       *)
(* leaves memory as it was.                                                *)
C7_WordStep ==
    last'.op = "set_memory_word" =>
       IF last'.a + 1 < 4096
       THEN /\ last'.ret = "true"
            /\ Byte(memory', last'.a) = last'.b \div 256
            /\ Byte(memory', last'.a + 1) = last'.b % 256
            /\ SameBytesExcept({last'.a, last'.a + 1})
            /\ OnlyMemoryChanges
       ELSE /\ last'.ret = "false"
            /\ SameBytesExcept({})
            /\ OnlyMemoryChanges

C7_WordWrite == [][C7_WordStep]_vars

(* C8: the call stack is a ring of 16 slots.  The stack pointer is always  *)
(* in 0..15.  CALL moves it to (sp + 1) mod 16 and stores there the        *)
(* address of the CALL; RET resumes 2 past the address in the slot of the  *)
(* stack pointer and moves it to (sp - 1) mod 16.  The calls not yet       *)
(* returned, at most the last 16, sit in the slots at and below the stack  *)
(* pointer, so RETs resume the callers in reverse order, and a 17th        *)
(* nested CALL takes the slot of the first without a fault.                *)
C8_Ring ==
    /\ stack_pointer \in 0 .. 15
    /\ ~panicked
    /\ Len(calls) <= 16
    /\ \A j \in 1 .. Len(calls) :
          stack[(stack_pointer + 16 - (Len(calls) - j)) % 16] = calls[j]

C8_Step ==
    /\ (last'.op = "execute" /\ last'.arm = "CALL") =>
          /\ stack_pointer' = (stack_pointer + 1) % 16
          /\ stack' = [stack EXCEPT ![stack_pointer'] = program_counter]
          /\ program_counter' = last'.word % 4096
    /\ (last'.op = "execute" /\ last'.arm = "RET") =>
          /\ program_counter' = (stack[stack_pointer] + 2) % 4096
          /\ stack_pointer' = (stack_pointer + 15) % 16
          /\ stack' = stack
          /\ calls # <<>> =>
                program_counter' = (calls[Len(calls)] + 2) % 4096

C8_StackIsRing == []C8_Ring /\ [][C8_Step]_vars

\* The 17th nested CALL, at 0x240, has taken slot 1, where the first, at
\* 0x200, had put its address.
C8_Witness ==
    /\ last.op = "execute" /\ last.arm = "CALL" /\ last.pc_before = 576
    /\ stack_pointer = 1 /\ stack[1] = 576
    /\ Len(calls) = 16 /\ calls[1] = 516 /\ calls[16] = 576

(* C9: an instruction word that matches no arm of the decoder (5xyN with   *)
(* N # 0, 8xyN with N in 8..D or F, 9xyN with N # 0, Exnn other than 9E    *)
(* and A1, Fxnn other than 07, 0A, 15, 18, 1E, 29, 33, 55, 65) is a no-op: *)
(* execute in the Ready state changes nothing, the program counter does    *)
(* not move, and a repeated step meets the same word.                      *)
UnknownWord(w) ==
    LET n3 == w \div 4096
        n0 == w % 16
        nn == w % 256
    IN  \/ n3 = 5 /\ n0 # 0
        \/ n3 = 8 /\ n0 \in {8, 9, 10, 11, 12, 13, 15}
        \/ n3 = 9 /\ n0 # 0
        \/ n3 = 14 /\ nn \notin {\h9E, \hA1}
        \/ n3 = 15 /\ nn \notin {\h07, \h0A, \h15, \h18, \h1E, \h29, \h33, \h55, \h65}

C9_UnknownStep ==
    (/\ last'.op = "execute"
     /\ device_state = "Ready"
     /\ program_counter + 1 < 4096
     /\ UnknownWord(256 * Byte(memory, program_counter)
                      + Byte(memory, program_counter + 1))) =>
       /\ UNCHANGED fields
       /\ ~panicked'
       /\ last'.arm = "none"

C9_UnknownIsNoOp ==
    /\ \A w \in 0 .. 65535 :
          UnknownWord(w) <=>
             Decode(w \div 4096, (w \div 256) % 16, (w \div 16) % 16, w % 16) = "none"
    /\ [][C9_UnknownStep]_vars

\* 0x812F has been executed at 0x200 with VA = 1, and everything is as it
\* was.
C9_Witness ==
    /\ last.op = "execute" /\ last.arm = "none" /\ last.word = \h812F
    /\ last.pc_before = 512 /\ program_counter = 512
    /\ general_registers[10] = 1
    /\ device_state = "Ready"

(* C10: a step taken in WaitingForKeypress.  If some key is unpressed in   *)
(* the snapshot and pressed on the keypad, the register recorded when the  *)
(* wait began receives the lowest such key, the run state becomes Ready,   *)
(* the program counter advances by 2 modulo 4096 and nothing else that the *)
(* host can observe changes (the private instruction count goes up by      *)
(* one).  If there is no such key the step changes nothing.                *)
NewKeys == {i \in 0 .. 15 : temp_keypad[i] = "Unpressed" /\ keypad[i] = "Pressed"}

Lowest(keys) == CHOOSE i \in keys : \A j \in keys : i <= j

C10_PollStep ==
    (last'.op = "execute" /\ device_state = "WaitingForKeypress") =>
       /\ ~panicked'
       /\ IF NewKeys # {}
          THEN /\ general_registers' =
                     [general_registers EXCEPT ![temp_vx] = Lowest(NewKeys)]
               /\ device_state' = "Ready"
               /\ program_counter' = (program_counter + 2) % 4096
               /\ tick_delay' = tick_delay + 1
               /\ UNCHANGED <<opcode, index, timer_delay, buzzer_delay,
                              stack_pointer, temp_vx, stack, memory, keypad,
                              temp_keypad, screen>>
          ELSE UNCHANGED fields

C10_KeyWaitStep == [][C10_PollStep]_vars

\* The wait at 0xFFE has been completed with two new keys down: V5 has the
\* lower one and the counter has wrapped to 0.
C10_Witness ==
    /\ last.op = "execute" /\ last.arm = "poll" /\ last.pc_before = 4094
    /\ device_state = "Ready" /\ program_counter = 0
    /\ NewKeys = {5, 15}
    /\ temp_vx = 5 /\ general_registers[5] = 5

(* C11: a Dxyn draw repeated at once at the same place, with N in 1..15    *)
(* and the sprite bytes index..index+N-1 inside memory, leaves the display *)
(* as it was before the first draw, and the second draw sets VF = 1        *)
(* exactly when the first draw lit at least one pixel, that is when a set  *)
(* bit of the sprite fell on a pixel that was unlit before the first draw  *)
(* (else VF = 0).                                                          *)

\* The pixels of the screen under the set bits of the sprite.
SpritePixels(x_pos, y_pos, n) ==
    {((y_pos + r) % 32) * 64 + ((x_pos + b) % 64) :
        <<r, b>> \in {rb \in (0 .. n - 1) \X (0 .. 7) :
                        (Byte(memory, index + rb[1]) \div (2 ^ (7 - rb[2]))) % 2 = 1}}

\* The step is the second of two draws of the same word at the same place.
SecondDraw ==
    /\ last.op = "execute" /\ last.arm = "DRW_VX_VY" /\ ~panicked
    /\ last'.op = "execute" /\ last'.arm = "DRW_VX_VY"
    /\ last'.word = last.word
    /\ last'.a = last.a /\ last'.b = last.b
    /\ last.word % 16 \in 1 .. 15
    /\ index + (last.word % 16) - 1 <= 4095

C11_SecondDrawStep ==
    SecondDraw =>
       /\ ~panicked'
       /\ screen' = last.shown
       /\ general_registers'[15] =
             IF SpritePixels(last.a, last.b, last.word % 16) \ last.shown # {}
             THEN 1 ELSE 0

C11_DoubleDraw == [][C11_SecondDrawStep]_vars

(* C11 as stated: the second draw sets VF = 1 exactly when the sprite has  *)
(* at least one set bit.                                                   *)
C11_SecondDrawStepAsStated ==
    SecondDraw =>
       /\ ~panicked'
       /\ screen' = last.shown
       /\ general_registers'[15] =
             IF SpritePixels(last.a, last.b, last.word % 16) # {} THEN 1 ELSE 0

C11_DoubleDrawAsStated == [][C11_SecondDrawStepAsStated]_vars

\* The glyph 0 has been drawn twice at (60, 30), across the right and the
\* bottom edge, over a pixel the host had lit: the screen is as before the
\* first draw and VF = 1.
C11_Witness ==
    /\ last.op = "execute" /\ last.arm = "DRW_VX_VY" /\ last.pc_before = 520
    /\ last.word = \hD125 /\ last.a = 60 /\ last.b = 30 /\ index = 0
    /\ screen = {31 * 64 + 63}
    /\ last.shown # screen
    /\ general_registers[15] = 1

(* C12: both timers are >= 0 in every state reached by steps, resets and   *)
(* decays of non-negative amounts; a decay by a sets its timer to          *)
(* max(0, t - a) and leaves the other timer and everything else as it was. *)
Clamped(t) == IF t < 0 THEN 0 ELSE t

C12_TimersNotNegative == timer_delay >= 0 /\ buzzer_delay >= 0

C12_DecayStep ==
    /\ last'.op = "subtract_from_delaycounter" =>
          /\ timer_delay' = Clamped(timer_delay - last'.a)
          /\ ~panicked'
          /\ UNCHANGED <<device_state, tick_delay, opcode, index, program_counter,
                         buzzer_delay, stack_pointer, temp_vx, stack,
                         general_registers, memory, keypad, temp_keypad, screen>>
    /\ last'.op = "subtract_from_buzzercounter" =>
          /\ buzzer_delay' = Clamped(buzzer_delay - last'.a)
          /\ ~panicked'
          /\ UNCHANGED <<device_state, tick_delay, opcode, index, program_counter,
                         timer_delay, stack_pointer, temp_vx, stack,
                         general_registers, memory, keypad, temp_keypad, screen>>

C12_TimerClamp == []C12_TimersNotNegative /\ [][C12_DecayStep]_vars

\* The delay timer, set to 2 by the program, has been taken to 0 by a decay
\* of 3/2 that was more than what was left; the sound timer is still 2.
C12_Witness ==
    /\ last.op = "subtract_from_delaycounter" /\ last.a = 3
    /\ timer_delay = 0 /\ buzzer_delay = 4
    /\ general_registers[2] = 1

(* C13: starting from a reset, the program counter is even after every     *)
(* instruction as long as no JP nnn or CALL nnn with an odd nnn and no     *)
(* JP V0,nnn with an odd nnn + V0 has been executed; no alignment is       *)
(* enforced, and a jump to an odd address leaves the counter odd.          *)
C13_EvenUnlessOddTarget ==
    ~odd_target => program_counter % 2 = 0

(* C13 as stated: after any instruction the program counter is even, for   *)
(* every program, including those that execute JP, CALL or JP V0.          *)
C13_EvenAfterEveryInstruction ==
    last.op = "execute" => program_counter % 2 = 0

\* JP V0,0xFFF with V0 = 0xFF, two odd numbers, has gone to 0x0FE.
C13_Witness ==
    /\ last.op = "execute" /\ last.arm = "JP_V0" /\ last.word = \hBFFF
    /\ general_registers[0] = 255
    /\ ~odd_target
    /\ program_counter = 254

(* C14: a newly constructed engine is in the state hard_reset leaves:      *)
(* registers, stack and display zeroed, memory zero but for the font in    *)
(* 0..79, and the program counter at 0x200, ready to run.                  *)
C14_NewIsHardReset ==
    last.op = "new" =>
       /\ \A x \in 0 .. 15 : general_registers[x] = 0
       /\ \A slot \in 0 .. 15 : stack[slot] = 0
       /\ screen = {}
       /\ \A a \in 0 .. 4095 :
             Byte(memory, a) = IF a < 80 THEN font_set[a + 1] ELSE 0
       /\ program_counter = 512
       /\ device_state = "Ready"
       /\ Cur = hard_reset(Cur)

\* The step runs the arm on the registers x and y of the word fetched.
Runs(arm) == last'.op = "execute" /\ last'.arm = arm
RegX == (last'.word \div 256) % 16
RegY == (last'.word \div 16) % 16

(* C15: ADD Vx,Vy sets VF = 1 if the sum of the values Vx and Vy had       *)
(* before it exceeds 255 and VF = 0 otherwise, leaves (Vx + Vy) mod 256 in *)
(* Vx when x # 0xF, and advances the program counter by 2.                 *)
C15_AddStep ==
    Runs("ADD_VX_VY") =>
       /\ ~panicked'
       /\ general_registers'[15] =
             IF general_registers[RegX] + general_registers[RegY] > 255 THEN 1 ELSE 0
       /\ RegX # 15 =>
             general_registers'[RegX] =
                (general_registers[RegX] + general_registers[RegY]) % 256
       /\ program_counter' = (program_counter + 2) % 4096

C15_Add == [][C15_AddStep]_vars

(* C16: SUB Vx,Vy, for all x and y (x = 0xF too), sets VF = 1 if Vx >= Vy  *)
(* held before it and VF = 0 otherwise, and leaves (Vx - Vy) mod 256 in Vx *)
(* when x # 0xF.                                                           *)
C16_SubStep ==
    Runs("SUB_VX_VY") =>
       /\ ~panicked'
       /\ general_registers'[15] =
             IF general_registers[RegX] >= general_registers[RegY] THEN 1 ELSE 0
       /\ RegX # 15 =>
             general_registers'[RegX] =
                (general_registers[RegX] - general_registers[RegY] + 256) % 256

C16_Sub == [][C16_SubStep]_vars

(* C17: SUBN Vx,Vy leaves (Vy - Vx) mod 256 in Vx when x # 0xF and sets     *)
(* VF = 1 if Vy >= Vx held before it, else 0.                              *)
C17_SubnStep ==
    Runs("SUBN_VX_VY") =>
       /\ ~panicked'
       /\ general_registers'[15] =
             IF general_registers[RegY] >= general_registers[RegX] THEN 1 ELSE 0
       /\ RegX # 15 =>
             general_registers'[RegX] =
                (general_registers[RegY] - general_registers[RegX] + 256) % 256

C17_Subn == [][C17_SubnStep]_vars

(* C18: SHL Vx shifts the register left by one bit, Vx = (2 * Vx) mod 256  *)
(* when x # 0xF, puts bit 7 of the value before it in VF, and advances the *)
(* program counter by 2.                                                   *)
C18_ShlStep ==
    Runs("SHL_VX") =>
       /\ ~panicked'
       /\ general_registers'[15] = general_registers[RegX] \div 128
       /\ RegX # 15 =>
             general_registers'[RegX] = (2 * general_registers[RegX]) % 256
       /\ program_counter' = (program_counter + 2) % 4096

C18_Shl == [][C18_ShlStep]_vars

(* C19: SKNP Vx tests the key whose index is the value k held in Vx: for   *)
(* k < 16 the program counter advances by 4 if key k of the live keypad is *)
(* unpressed and by 2 if it is pressed, whatever the register number x and *)
(* the saved snapshot are.                                                 *)
C19_SknpStep ==
    (Runs("SKNP_VX") /\ general_registers[RegX] < 16) =>
       /\ ~panicked'
       /\ program_counter' =
             (program_counter
                + IF keypad[general_registers[RegX]] = "Unpressed" THEN 4 ELSE 2) % 4096

C19_SknpTestsValue == [][C19_SknpStep]_vars

(* C20: SKP Vx completes for every value k in 0..255 held in Vx: for       *)
(* k < 16 the program counter advances by 4 if key k of the live keypad is *)
(* pressed and by 2 otherwise; for k >= 16 the instruction ends as a no-op *)
(* or a clamped lookup, without a fault.                                   *)
C20_SkpStep ==
    Runs("SKP_VX") =>
       /\ ~panicked'
       /\ general_registers[RegX] < 16 =>
             program_counter' =
                (program_counter
                   + IF keypad[general_registers[RegX]] = "Pressed" THEN 4 ELSE 2) % 4096
       /\ general_registers[RegX] >= 16 =>
             program_counter' \in {(program_counter + 2) % 4096,
                                   (program_counter + 4) % 4096}

C20_SkpNeverFaults == [][C20_SkpStep]_vars

(* C21: LD B,Vx with index + 2 <= 4095 stores the decimal digits of the    *)
(* value v of Vx: memory[index] = v div 100, memory[index + 1] =           *)
(* (v div 10) mod 10, memory[index + 2] = v mod 10; no other byte of       *)
(* memory changes, the index is unchanged and the counter advances by 2.   *)
C21_DigitsStep ==
    (Runs("LD_B_VX") /\ index + 2 <= 4095) =>
       /\ ~panicked'
       /\ Byte(memory', index) = general_registers[RegX] \div 100
       /\ Byte(memory', index + 1) = (general_registers[RegX] \div 10) % 10
       /\ Byte(memory', index + 2) = general_registers[RegX] % 10
       /\ SameBytesExcept({index, index + 1, index + 2})
       /\ index' = index
       /\ program_counter' = (program_counter + 2) % 4096

C21_Digits == [][C21_DigitsStep]_vars

(* C22: LD F,Vx sets the index to 5 * (v mod 16) for every value v of Vx,  *)
(* an address in [0,75] inside the font, and advances the counter by 2.    *)
C22_GlyphStep ==
    Runs("LD_F_VX") =>
       /\ ~panicked'
       /\ index' = 5 * (general_registers[RegX] % 16)
       /\ index' \in 0 .. 75
       /\ program_counter' = (program_counter + 2) % 4096

C22_Glyph == [][C22_GlyphStep]_vars

(* C23: DRW Vx,Vy,N with its N sprite bytes inside memory: for every row   *)
(* r < N and column c < 8, most significant bit first, the pixel at row    *)
(* (Vy + r) mod 32, column (Vx + c) mod 64 becomes the exclusive-or of its *)
(* old state and the sprite bit; every other pixel is unchanged; VF = 1 if *)
(* a pixel went from lit to unlit and 0 otherwise; the counter advances by *)
(* 2.                                                                      *)
C23_DrawStep ==
    (Runs("DRW_VX_VY") /\ index + (last'.word % 16) - 1 <= 4095) =>
       LET sprite == SpritePixels(last'.a, last'.b, last'.word % 16)
       IN  /\ ~panicked'
           /\ screen' = (screen \ sprite) \cup (sprite \ screen)
           /\ general_registers'[15] = IF sprite \cap screen # {} THEN 1 ELSE 0
           /\ program_counter' = (program_counter + 2) % 4096

C23_DrawIsXor == [][C23_DrawStep]_vars

\* The first row of the glyph 0, the byte 0xF0, has been drawn at (0, 0) on a
\* blank screen: row 0, columns 0..3 are lit and VF = 0.
C23_Witness ==
    /\ last.op = "execute" /\ last.arm = "DRW_VX_VY" /\ last.pc_before = 518
    /\ last.word = \hD121 /\ last.a = 0 /\ last.b = 0 /\ index = 0
    /\ last.shown = {}
    /\ screen = {0, 1, 2, 3}
    /\ general_registers[15] = 0
    /\ program_counter = 520

(* C24: DRW Vx,Vy,N completes without a fault and without a read outside  *)
(* memory[0..4095] for every value of the index: 0xFFF with N >= 2, and    *)
(* values above 0xFFF left by ADD I,Vx.                                    *)
C24_DrawStep == Runs("DRW_VX_VY") => ~panicked'

C24_DrawNeverFaults == [][C24_DrawStep]_vars

(* C25: LD [I],Vx copies V0..Vx to memory[index .. index + x] and          *)
(* LD Vx,[I] copies memory[index .. index + x] to V0..Vx, both inclusive   *)
(* of Vx and both stopping at the first address above 4095 with the copies *)
(* made so far kept; the registers above Vx, the memory outside the range  *)
(* and the index are unchanged and the counter advances by 2; a store      *)
(* followed by a load with the same index restores V0..Vx.                 *)
Copied == {r \in 0 .. RegX : index + r <= 4095}

C25_StoreStep ==
    Runs("LD_iIi_VX") =>
       /\ ~panicked'
       /\ \A r \in Copied : Byte(memory', index + r) = general_registers[r]
       /\ SameBytesExcept({index + r : r \in Copied})
       /\ general_registers' = general_registers
       /\ index' = index
       /\ program_counter' = (program_counter + 2) % 4096

C25_LoadStep ==
    Runs("LD_VX_iIi") =>
       /\ ~panicked'
       /\ \A r \in Copied : general_registers'[r] = Byte(memory, index + r)
       /\ \A r \in (0 .. 15) \ Copied : general_registers'[r] = general_registers[r]
       /\ memory' = memory
       /\ index' = index
       /\ program_counter' = (program_counter + 2) % 4096

\* The load that follows the store of the same registers, at once or after
\* the two loads that overwrite V0 = memory[0x201] and V1 = memory[0x203].
C25_RoundTripStep ==
    /\ (last.op = "execute" /\ last.arm = "LD_iIi_VX" /\ Runs("LD_VX_iIi")
          /\ (last.word \div 256) % 16 = RegX) =>
          \A r \in 0 .. RegX : general_registers'[r] = general_registers[r]
    /\ (Runs("LD_VX_iIi") /\ program_counter = \h20C) =>
          \A r \in Copied : general_registers'[r] = Byte(memory, \h201 + 2 * r)

C25_Transfer == [][C25_StoreStep /\ C25_LoadStep /\ C25_RoundTripStep]_vars

\* V0 = 7 and V1 = 123 were stored at 0xFFF, where only V0 fits, overwritten
\* by 0x55 and 0x66 and loaded again: V0 is restored, V1 is not.
C25_Witness ==
    /\ last.op = "execute" /\ last.arm = "LD_VX_iIi" /\ last.pc_before = \h20C
    /\ index = \hFFF
    /\ Byte(memory, \hFFF) = 7
    /\ general_registers[0] = 7
    /\ general_registers[1] = \h66
    /\ program_counter = \h20E

(* C26: LD Vx,K executed in the Ready state makes the run state            *)
(* WaitingForKeypress, records x as the destination register and makes the *)
(* snapshot a copy of the sixteen live key states; the program counter,    *)
(* the registers, memory, the display, the stack and the timers are        *)
(* unchanged.                                                              *)
C26_WaitStep ==
    (Runs("LD_VX_K") /\ device_state = "Ready") =>
       /\ ~panicked'
       /\ device_state' = "WaitingForKeypress"
       /\ temp_vx' = RegX
       /\ \A k \in 0 .. 15 : temp_keypad'[k] = keypad[k]
       /\ UNCHANGED <<program_counter, general_registers, index, memory, screen,
                      stack, stack_pointer, timer_delay, buzzer_delay, keypad>>

C26_WaitBegins == [][C26_WaitStep]_vars

\* LD V3,K has run with the key 5 down and the key 15 up: the machine waits
\* at 0x200 for V3 with that keypad as its snapshot.
C26_Witness ==
    /\ last.op = "execute" /\ last.arm = "LD_VX_K" /\ last.pc_before = \h200
    /\ device_state = "WaitingForKeypress"
    /\ temp_vx = 3
    /\ temp_keypad[5] = "Pressed" /\ temp_keypad[15] = "Unpressed"
    /\ temp_keypad = keypad
    /\ program_counter = \h200

(* C27: the run state goes from Ready to WaitingForKeypress only by a step *)
(* that executes LD Vx,K, and from WaitingForKeypress to Ready only by a   *)
(* step that detects a new key press or by a soft or hard reset; set_key,  *)
(* the memory writes, set_program_counter and the timer decays change      *)
(* neither the run state nor the snapshot; while the machine waits a step  *)
(* fetches and executes no instruction.                                    *)
C27_RunStateStep ==
    /\ (device_state = "Ready" /\ device_state' = "WaitingForKeypress") =>
          Runs("LD_VX_K")
    /\ (device_state = "WaitingForKeypress" /\ device_state' = "Ready") =>
          \/ last'.op \in {"soft_reset", "hard_reset"}
          \/ last'.op = "execute" /\ NewKeys # {}
    /\ last'.op \in {"set_key", "set_memory_byte", "set_memory_word",
                     "set_program_counter", "subtract_from_delaycounter",
                     "subtract_from_buzzercounter"} =>
          UNCHANGED <<device_state, temp_keypad>>
    /\ (last'.op = "execute" /\ device_state = "WaitingForKeypress") =>
          /\ ~panicked'
          /\ last'.arm = "poll"
          /\ \A r \in (0 .. 15) \ {temp_vx} :
                general_registers'[r] = general_registers[r]
          /\ program_counter' \in {program_counter, (program_counter + 2) % 4096}
          /\ UNCHANGED <<opcode, index, timer_delay, buzzer_delay, stack_pointer,
                         temp_vx, stack, memory, keypad, temp_keypad, screen>>

C27_RunStates == [][C27_RunStateStep]_vars

\* The host moved the counter to 4095 while the machine waited for V3, and a
\* step then found the key 5 newly down: the wait is over with V3 = 5 and the
\* counter at 1, and the two bytes at 4095 and 4096 were not fetched.
C27_Witness ==
    /\ last.op = "execute" /\ last.arm = "poll"
    /\ last.state_before = "WaitingForKeypress" /\ last.pc_before = 4095
    /\ device_state = "Ready"
    /\ ~panicked
    /\ temp_vx = 3 /\ general_registers[3] = 5
    /\ program_counter = 1

=============================================================================
